---- MODULE Spec2Model ----
(***************************************************************************)
(* A model of backend/main.py: the voice agent's websocket session.        *)
(*                                                                         *)
(*   - FormState and the three tool handlers (open_form, fill_form_field,  *)
(*     submit_form), each split at its awaits, with the function-call      *)
(*     dispatcher of the LLM service (run_in_parallel) and the pipeline's  *)
(*     audio-output stage writing to the same connection      (Spec);      *)
(*   - RobustWebsocketTransport._receive_messages and the session's        *)
(*     lifecycle in websocket_endpoint                  (SessionSpec);     *)
(*   - two connections served at once, each by its own call of             *)
(*     websocket_endpoint with its own FormState     (TwoSessionSpec).     *)
(*                                                                         *)
(* Strings the code computes on (utterances, normalized candidates) are    *)
(* sequences of one-character strings, so that lower(), strip() and the    *)
(* two re.sub() calls are computed character by character.                 *)
(***************************************************************************)
EXTENDS Integers, Sequences, FiniteSets, TLC

VARIABLES
    phase,          \* websocket_endpoint: where the session's coroutine is
    api_key,        \* os.getenv("GEMINI_API_KEY"): "set" or "missing"
    ws_log,         \* what websocket_endpoint itself did to ws: sends and closes
    escaped,        \* the exception that left websocket_endpoint, or "none"
    rpc,            \* _receive_messages: where the receive loop is
    closed,         \* the transport's _closed flag
    received,       \* the messages self._ws.receive() has returned, in order
    frame,          \* the InputAudioRawFrame built and not yet pushed
    pushed,         \* the frames push_audio_frame has taken, in order
    raised,         \* what the loop's last await raised: [kind, at] or NoRaise
    error_logs,     \* number of logger.exception calls of the receive loop
    propagated,     \* whether an exception left _receive_messages
    form_state,     \* the session's FormState: [form_type, fields]
    calls,          \* the function calls the model has issued, in order
    results,        \* what params.result_callback has been given, in order
    events,         \* what ws.send_json has written for the tools, in order
    audio_writing,  \* the output stage is in the middle of writing a frame
    active,         \* two connections: those whose handler has built its tools
    form_states,    \* two connections: the FormState objects, by identity
    session_calls,  \* two connections: the tool calls each has started, in order
    session_busy,   \* two connections: a handler is between its result and its event
    session_results,\* two connections: what each one's result_callback was given
    session_events  \* two connections: what each one's ws.send_json has written

session_vars == <<phase, api_key, ws_log, escaped>>
recv_vars == <<rpc, closed, received, frame, pushed, raised, error_logs, propagated>>
tool_vars == <<form_state, calls, results, events, audio_writing>>
pair_vars == <<active, form_states, session_calls, session_busy,
               session_results, session_events>>
vars == <<phase, api_key, ws_log, escaped,
          rpc, closed, received, frame, pushed, raised, error_logs, propagated,
          form_state, calls, results, events, audio_writing,
          active, form_states, session_calls, session_busy,
          session_results, session_events>>

-----------------------------------------------------------------------------
(* Bounds of the model.                                                    *)

\* Function calls the model issues in one session.
MaxCalls == 3
\* Messages the receive loop reads in one session.
MaxMsgs == 3
\* Function calls each of two concurrent sessions receives.
MaxSessionCalls == 2

-----------------------------------------------------------------------------
(* Characters and strings.                                                 *)

\* What \s and str.strip() take for whitespace, among the characters used.
Whitespace == {" ", "\t", "\n"}

LowerLetters ==
    {"a","b","c","d","e","f","g","h","i","j","k","l","m",
     "n","o","p","q","r","s","t","u","v","w","x","y","z"}

UpperLetters ==
    {"A","B","C","D","E","F","G","H","I","J","K","L","M",
     "N","O","P","Q","R","S","T","U","V","W","X","Y","Z"}

Digits == {"0","1","2","3","4","5","6","7","8","9"}

\* \w of the regular expressions: what \b tells apart from the rest.
IsWordChar(c) == c \in LowerLetters \cup UpperLetters \cup Digits \cup {"_"}

\* str.lower() on one character.
ToLower(c) ==
    CASE c = "A" -> "a" [] c = "B" -> "b" [] c = "C" -> "c" [] c = "D" -> "d"
      [] c = "E" -> "e" [] c = "F" -> "f" [] c = "G" -> "g" [] c = "H" -> "h"
      [] c = "I" -> "i" [] c = "J" -> "j" [] c = "K" -> "k" [] c = "L" -> "l"
      [] c = "M" -> "m" [] c = "N" -> "n" [] c = "O" -> "o" [] c = "P" -> "p"
      [] c = "Q" -> "q" [] c = "R" -> "r" [] c = "S" -> "s" [] c = "T" -> "t"
      [] c = "U" -> "u" [] c = "V" -> "v" [] c = "W" -> "w" [] c = "X" -> "x"
      [] c = "Y" -> "y" [] c = "Z" -> "z" [] OTHER -> c

\* value.lower()
lower(s) == [i \in 1..Len(s) |-> ToLower(s[i])]

RECURSIVE lstrip(_)
lstrip(s) ==
    IF s = <<>> THEN s
    ELSE IF Head(s) \in Whitespace THEN lstrip(Tail(s)) ELSE s

RECURSIVE rstrip(_)
rstrip(s) ==
    IF s = <<>> THEN s
    ELSE IF s[Len(s)] \in Whitespace THEN rstrip(SubSeq(s, 1, Len(s) - 1)) ELSE s

\* str.strip()
strip(s) == rstrip(lstrip(s))

\* "c in text"
Contains(s, c) == \E i \in 1..Len(s) : s[i] = c

\* The literal w stands in s at position i.
LitAt(s, i, w) ==
    /\ i + Len(w) - 1 <= Len(s)
    /\ \A k \in 1..Len(w) : s[i + k - 1] = w[k]

\* \s* from position i, greedy: the position after the run of whitespace.
RECURSIVE SkipWs(_, _)
SkipWs(s, i) ==
    IF i <= Len(s) /\ s[i] \in Whitespace THEN SkipWs(s, i + 1) ELSE i

\* \b at position i of s: between s[i-1] and s[i].
WordBoundary(s, i) ==
    (i > 1 /\ IsWordChar(s[i - 1])) # (i <= Len(s) /\ IsWordChar(s[i]))

W_at == <<"a","t">>
W_the == <<"t","h","e">>
W_rate == <<"r","a","t","e">>
W_of == <<"o","f">>
W_my_name_is == <<"m","y"," ","n","a","m","e"," ","i","s">>
W_name_is == <<"n","a","m","e"," ","i","s">>
W_i_am == <<"i"," ","a","m">>
W_i_m == <<"i","'","m">>

\* r"\s+at\s+the\s+rate(\s+of)?\s+" matched at position i: the position after
\* the match, or 0. Each \s+ is followed by a letter, so it takes the whole run
\* of whitespace; the optional group is tried first and given up when the
\* closing \s+ finds no whitespace after "of".
MatchAtTheRate(s, i) ==
    LET a == SkipWs(s, i)
        b == SkipWs(s, a + 2)
        c == SkipWs(s, b + 3)
        d == c + 4
        e == SkipWs(s, d)
        f == SkipWs(s, e + 2)
    IN  IF /\ a > i /\ LitAt(s, a, W_at)
           /\ b > a + 2 /\ LitAt(s, b, W_the)
           /\ c > b + 3 /\ LitAt(s, c, W_rate)
           /\ e > d
        THEN IF LitAt(s, e, W_of) /\ f > e + 2 THEN f ELSE e
        ELSE 0

\* re.sub(r"\s+at\s+the\s+rate(\s+of)?\s+", "@", text): leftmost matches, not
\* overlapping, scanned from position i.
RECURSIVE SubAtTheRate(_, _)
SubAtTheRate(s, i) ==
    IF i > Len(s) THEN <<>>
    ELSE LET e == MatchAtTheRate(s, i)
         IN  IF e > 0 THEN <<"@">> \o SubAtTheRate(s, e)
             ELSE <<s[i]>> \o SubAtTheRate(s, i + 1)

\* The alternatives of (my name is|name is|i am|i'm), in the order tried.
IntroPhrases == <<W_my_name_is, W_name_is, W_i_am, W_i_m>>

\* r"\b(my name is|name is|i am|i'm)\b" matched at position i: the position
\* after the match, or 0.
MatchIntro(s, i) ==
    LET ok(k) == /\ LitAt(s, i, IntroPhrases[k])
                 /\ WordBoundary(s, i + Len(IntroPhrases[k]))
        hits == {k \in 1..Len(IntroPhrases) : ok(k)}
        first == CHOOSE k \in hits : \A j \in hits : k <= j
    IN  IF WordBoundary(s, i) /\ hits # {}
        THEN i + Len(IntroPhrases[first])
        ELSE 0

\* re.sub(r"\b(my name is|name is|i am|i'm)\b", "", text), scanned from i.
RECURSIVE SubIntro(_, _)
SubIntro(s, i) ==
    IF i > Len(s) THEN <<>>
    ELSE LET e == MatchIntro(s, i)
         IN  IF e > 0 THEN SubIntro(s, e)
             ELSE <<s[i]>> \o SubIntro(s, i + 1)

\* fill_form_field, lines 155-157: the normalized text.
Normalize(value) ==
    strip(SubIntro(SubAtTheRate(strip(lower(value)), 1), 1))


-----------------------------------------------------------------------------
(* FormState (lines 80-93).                                                *)

\* Python's None, as the value of form_type before any form is opened.
None == "None"

NoFields == [k \in {} |-> <<>>]

\* FormState(): form_type = None, fields = {}
FormState == [form_type |-> None, fields |-> NoFields]

\* FormState.open
FormState_open_keeps_fields(fs) == [fs EXCEPT !.form_type = "registration"]
FormState_open(fs) == [form_type |-> "registration", fields |-> NoFields]

\* FormState.fill
FormState_fill_replaces(fs, field, value) == [fs EXCEPT !.fields = (field :> value)]
FormState_fill(fs, field, value) ==
    [fs EXCEPT !.fields = (field :> value) @@ fs.fields]

\* FormState.dump: {"form_type": self.form_type, **self.fields}; a key of
\* fields spelled "form_type" would take the place of the form's type.
FormState_dump(fs) ==
    [k \in {"form_type"} \cup DOMAIN fs.fields |->
        IF k \in DOMAIN fs.fields THEN fs.fields[k] ELSE fs.form_type]

-----------------------------------------------------------------------------
(* The utterances the model passes to fill_form_field.                     *)

U_blank == <<" "," "," ">>
U_my_name_is_John ==
    <<"m","y"," ","n","a","m","e"," ","i","s"," ","J","o","h","n">>
U_John_at_the_rate ==
    <<"J","o","h","n"," ","a","t"," ","t","h","e"," ","r","a","t","e"," ","E","x","a","m","p","l","e",".","c","o","m">>
U_email_is_john ==
    <<"e","m","a","i","l"," ","i","s"," ","j","o","h","n"," ","a","t"," ",
      "t","h","e"," ","r","a","t","e"," ","e","x","a","m","p","l","e",".","c","o","m">>
U_hello_im_Bob ==
    <<"h","e","l","l","o"," ","i","'","m"," ","B","o","b">>

Utterances ==
    {U_blank, U_my_name_is_John, U_John_at_the_rate, U_email_is_john, U_hello_im_Bob}

\* The tools registered with the LLM service (lines 189, 197-199).
Tools == {"open_form", "fill_form_field", "submit_form"}

\* What the model can ask for: a tool and, for fill_form_field, its value.
Requests ==
    {[tool |-> "open_form", value |-> <<>>], [tool |-> "submit_form", value |-> <<>>]}
    \cup {[tool |-> "fill_form_field", value |-> u] : u \in Utterances}


-----------------------------------------------------------------------------
(* websocket_endpoint up to the pipeline run (lines 116-139, 188-234).     *)

\* await ws.accept()
accept ==
    /\ phase = "start"
    /\ phase' = "accepted"
    /\ ws_log' = Append(ws_log, [op |-> "accept"])
    /\ UNCHANGED pair_vars
    /\ UNCHANGED <<api_key, escaped, recv_vars, tool_vars>>

\* if not api_key: await ws.send_json({"error": "GEMINI_API_KEY not set"})
missing_key_send ==
    /\ phase = "accepted"
    /\ api_key = "missing"
    /\ phase' = "rejecting"
    /\ ws_log' = Append(ws_log, [op |-> "send_json", error |-> "GEMINI_API_KEY not set"])
    /\ UNCHANGED pair_vars
    /\ UNCHANGED <<api_key, escaped, recv_vars, tool_vars>>

\* await ws.close(code=4401); return
missing_key_close_no_return ==
    /\ phase = "rejecting"
    /\ phase' = "running"
    /\ ws_log' = Append(ws_log, [op |-> "close", code |-> 4401])
    /\ UNCHANGED pair_vars
    /\ UNCHANGED <<api_key, escaped, recv_vars, tool_vars>>
missing_key_close ==
    /\ phase = "rejecting"
    /\ phase' = "returned"
    /\ ws_log' = Append(ws_log, [op |-> "close", code |-> 4401])
    /\ UNCHANGED pair_vars
    /\ UNCHANGED <<api_key, escaped, recv_vars, tool_vars>>

\* The transport, form_state = FormState(), the tools, the LLM service and the
\* pipeline are built and PipelineRunner.run(task) is awaited: the pipeline
\* runs, and with it the receive loop and the tool dispatcher.
setup ==
    /\ phase = "accepted"
    /\ api_key = "set"
    /\ phase' = "running"
    /\ form_state' = FormState
    /\ rpc' = "loop"
    /\ UNCHANGED pair_vars
    /\ UNCHANGED <<api_key, ws_log, escaped, closed, received, frame, pushed,
                   raised, error_logs, propagated,
                   calls, results, events, audio_writing>>

\* One of the constructors of lines 127-234 raises: the lines lie outside the
\* try of line 236, so the exception leaves websocket_endpoint at once.
setup_raises ==
    /\ phase = "accepted"
    /\ api_key = "set"
    /\ phase' = "returned"
    /\ escaped' = "error"
    /\ UNCHANGED pair_vars
    /\ UNCHANGED <<api_key, ws_log, recv_vars, tool_vars>>

-----------------------------------------------------------------------------
(* The tool dispatcher and the three tools (lines 142-199).                *)

\* GeminiMultimodalLiveLLMService(..., run_in_parallel=False)
run_in_parallel_on == TRUE
run_in_parallel == FALSE

\* A handler between its start and its completion: past its result callback
\* and waiting to write ("send"), or in the middle of ws.send_json ("sending").
Running(c) == c.pc \in {"send", "sending"}

\* The model issues a function call; the LLM service queues it.
llm_function_call(req) ==
    /\ phase = "running"
    /\ Len(calls) < MaxCalls
    /\ calls' = Append(calls, [tool |-> req.tool, value |-> req.value, pc |-> "queued",
                               pre |-> FormState, resp |-> [status |-> "none"],
                               post |-> FormState])
    /\ UNCHANGED pair_vars
    /\ UNCHANGED <<form_state, results, events, audio_writing, session_vars, recv_vars>>

\* The service starts the queued calls in order; with run_in_parallel=False the
\* next one starts only when no handler is running.
CanStart(i) ==
    /\ phase = "running"
    /\ i \in 1..Len(calls)
    /\ calls[i].pc = "queued"
    /\ \A j \in 1..(i - 1) : calls[j].pc # "queued"
    /\ run_in_parallel \/ \A j \in 1..Len(calls) : ~Running(calls[j])

\* await params.result_callback(resp): the handler, started in form state
\* `pre`, has left the form in state fs and hands resp to the model; it goes on
\* to ws.send_json(resp).
result_callback_skipped(i, fs, resp) ==
    /\ form_state' = fs
    /\ results' = results
    /\ calls' = [calls EXCEPT ![i] = [@ EXCEPT !.pc = "send", !.pre = form_state,
                                               !.resp = resp]]
result_callback(i, fs, resp) ==
    /\ form_state' = fs
    /\ results' = Append(results, [call |-> i, payload |-> resp])
    /\ calls' = [calls EXCEPT ![i] = [@ EXCEPT !.pc = "send", !.pre = form_state,
                                               !.resp = resp]]

\* open_form, lines 143-146
open_form(i) ==
    /\ CanStart(i)
    /\ calls[i].tool = "open_form"
    /\ result_callback(i, FormState_open(form_state),
                       [status |-> "opened", form_type |-> "registration"])
    /\ UNCHANGED pair_vars
    /\ UNCHANGED <<events, audio_writing, session_vars, recv_vars>>

\* fill_form_field, lines 159-164: the field a normalized text is taken for.
Classify_swapped(text) == IF Contains(text, "@") THEN "name" ELSE "email"
Classify_always_name(text) == "name"
Classify(text) == IF Contains(text, "@") THEN "email" ELSE "name"

\* fill_form_field, lines 151-174: the form state it leaves and its response.
FillOutcome(fs, value) ==
    LET opened == IF fs.form_type = None THEN FormState_open(fs) ELSE fs
        text == Normalize(value)
        field == Classify(text)
        candidate == text
    IN  IF candidate = <<>>
        THEN [form_state |-> opened, resp |-> [error |-> "no_field_detected"]]
        ELSE [form_state |-> FormState_fill(opened, field, candidate),
              resp |-> [status |-> "filled", field |-> field, value |-> candidate]]

\* fill_form_field, lines 151-168 (the error) and 151-175 (the field filled)
fill_form_field(i) ==
    /\ CanStart(i)
    /\ calls[i].tool = "fill_form_field"
    /\ LET out == FillOutcome(form_state, calls[i].value)
       IN  result_callback(i, out.form_state, out.resp)
    /\ UNCHANGED pair_vars
    /\ UNCHANGED <<events, audio_writing, session_vars, recv_vars>>

\* submit_form, lines 180-183
submit_form(i) ==
    /\ CanStart(i)
    /\ calls[i].tool = "submit_form"
    /\ result_callback(i, form_state,
                       [status |-> "submitted", data |-> FormState_dump(form_state)])
    /\ UNCHANGED pair_vars
    /\ UNCHANGED <<events, audio_writing, session_vars, recv_vars>>

\* await ws.send_json(resp) begins: the handler starts writing to the connection.
ws_send_json(i) ==
    /\ i \in 1..Len(calls)
    /\ calls[i].pc = "send"
    /\ calls' = [calls EXCEPT ![i].pc = "sending"]
    /\ UNCHANGED pair_vars
    /\ UNCHANGED <<form_state, results, events, audio_writing, session_vars, recv_vars>>

\* What a handler does to the form after its ws.send_json: submit_form reopens
\* the form (line 185), the others only log.
AfterSend_no_reopen(tool, fs) == fs
AfterSend_to_idle(tool, fs) == IF tool = "submit_form" THEN FormState ELSE fs
AfterSend(tool, fs) == IF tool = "submit_form" THEN FormState_open(fs) ELSE fs

\* ws.send_json(resp) has written the event; the handler runs to its end
\* (lines 148, 170-171, 177, 185-186).
ws_send_json_done(i) ==
    /\ i \in 1..Len(calls)
    /\ calls[i].pc = "sending"
    /\ events' = Append(events, [call |-> i, payload |-> calls[i].resp])
    /\ form_state' = AfterSend(calls[i].tool, form_state)
    /\ calls' = [calls EXCEPT ![i] = [@ EXCEPT !.pc = "done", !.post = form_state']]
    /\ UNCHANGED pair_vars
    /\ UNCHANGED <<results, audio_writing, session_vars, recv_vars>>

\* transport.output() (line 227) starts writing an audio frame of the model's
\* answer to the connection, serialized by PCMBytesSerializer.serialize.
audio_write ==
    /\ phase = "running"
    /\ ~audio_writing
    /\ audio_writing' = TRUE
    /\ UNCHANGED pair_vars
    /\ UNCHANGED <<form_state, calls, results, events, session_vars, recv_vars>>

\* The audio frame is written.
audio_write_done ==
    /\ audio_writing
    /\ audio_writing' = FALSE
    /\ UNCHANGED pair_vars
    /\ UNCHANGED <<form_state, calls, results, events, session_vars, recv_vars>>

-----------------------------------------------------------------------------
(* The session with its tools.                                             *)

\* No exception raised by an await of the receive loop.
NoRaise == [kind |-> "none", at |-> "none"]

\* Two connections the server has at the same time.
Sessions == {"a", "b"}

Init ==
    /\ phase = "start"
    /\ api_key \in {"set", "missing"}
    /\ ws_log = <<>>
    /\ escaped = "none"
    /\ rpc = "idle"
    /\ closed = FALSE
    /\ received = <<>>
    /\ frame = <<>>
    /\ pushed = <<>>
    /\ raised = NoRaise
    /\ error_logs = 0
    /\ propagated = FALSE
    /\ form_state = FormState
    /\ calls = <<>>
    /\ results = <<>>
    /\ events = <<>>
    /\ audio_writing = FALSE
    /\ active = {}
    /\ form_states = [o \in Sessions |-> FormState]
    /\ session_calls = [s \in Sessions |-> <<>>]
    /\ session_busy = [s \in Sessions |-> FALSE]
    /\ session_results = [s \in Sessions |-> <<>>]
    /\ session_events = [s \in Sessions |-> <<>>]

Next ==
    \/ accept
    \/ missing_key_send
    \/ missing_key_close
    \/ setup
    \/ setup_raises
    \/ \E req \in Requests : llm_function_call(req)
    \/ \E i \in 1..MaxCalls : open_form(i)
    \/ \E i \in 1..MaxCalls : fill_form_field(i)
    \/ \E i \in 1..MaxCalls : submit_form(i)
    \/ \E i \in 1..MaxCalls : ws_send_json(i)
    \/ \E i \in 1..MaxCalls : ws_send_json_done(i)
    \/ audio_write
    \/ audio_write_done

Spec == Init /\ [][Next]_vars


-----------------------------------------------------------------------------
(* RobustWebsocketTransport._receive_messages (lines 50-76).               *)

\* Binary payloads a client sends; the empty one is a binary message too.
B_one == <<1>>
B_two == <<2, 3>>
B_empty == <<>>

\* What self._ws.receive() returns: an ASGI message, here with the keys whose
\* value is not None. The last one carries neither bytes nor text.
Messages ==
    {[type |-> "websocket.receive", bytes |-> B_one],
     [type |-> "websocket.receive", bytes |-> B_two],
     [type |-> "websocket.receive", bytes |-> B_empty],
     [type |-> "websocket.receive", text |-> "ping"],
     [type |-> "websocket.disconnect"]}

\* What an await of the loop can raise: WebSocketDisconnect or
\* ConnectionClosedError ("disconnect"), another Exception ("error"), or
\* asyncio's CancelledError, a BaseException ("cancelled").
ReceiveRaises == {"disconnect", "error", "cancelled"}
\* push_audio_frame does not touch the connection: it raises no disconnect.
PushRaises == {"error", "cancelled"}

\* InputAudioRawFrame(audio=audio_bytes, sample_rate=16_000, num_channels=1)
InputAudioRawFrame(audio) ==
    [audio |-> audio, sample_rate |-> 16000, num_channels |-> 1]

\* line 62: audio_bytes and isinstance(audio_bytes, (bytes, bytearray))
IsAudio_any_bytes(msg) == "bytes" \in DOMAIN msg
IsAudio(msg) == "bytes" \in DOMAIN msg /\ Len(msg.bytes) > 0

\* What the try statement of lines 52-76 does with an exception of `kind`
\* raised at `at` ("receive" or "push"): whether it is logged, and whether it
\* leaves _receive_messages. The inner except (56-57) takes a disconnect raised
\* by receive(); except Exception (73-74) logs any other Exception; "finally:
\* return" (75-76) drops whatever is still in flight, a BaseException included.
Caught_without_finally(kind, at) ==
    IF at = "receive" /\ kind = "disconnect"
    THEN [logged |-> FALSE, propagates |-> FALSE]
    ELSE [logged |-> FALSE, propagates |-> TRUE]
Caught(kind, at) ==
    IF at = "receive" /\ kind = "disconnect"
    THEN [logged |-> FALSE, propagates |-> FALSE]
    ELSE IF kind \in {"disconnect", "error"}
    THEN [logged |-> TRUE, propagates |-> FALSE]
    ELSE [logged |-> FALSE, propagates |-> FALSE]

\* An await of the loop raises: the loop is left.
Raise(kind, at) ==
    /\ raised' = [kind |-> kind, at |-> at]
    /\ error_logs' = error_logs + (IF Caught(kind, at).logged THEN 1 ELSE 0)
    /\ propagated' = Caught(kind, at).propagates
    /\ rpc' = IF Caught(kind, at).propagates THEN "raised" ELSE "returned"

\* line 53: while self._ws and not self._closed
loop_test ==
    /\ rpc = "loop"
    /\ rpc' = IF closed THEN "returned" ELSE "receiving"
    /\ UNCHANGED pair_vars
    /\ UNCHANGED <<closed, received, frame, pushed, raised, error_logs, propagated,
                   session_vars, tool_vars>>

\* lines 55, 59-71: receive() returns msg; an audio payload becomes a frame to
\* push, anything else is dropped and the loop goes on.
receive_message(msg) ==
    /\ rpc = "receiving"
    /\ Len(received) < MaxMsgs
    /\ received' = Append(received, msg)
    /\ IF IsAudio(msg)
       THEN /\ frame' = <<InputAudioRawFrame(msg.bytes)>>
            /\ rpc' = "push"
       ELSE /\ frame' = <<>>
            /\ rpc' = "loop"
    /\ UNCHANGED pair_vars
    /\ UNCHANGED <<closed, pushed, raised, error_logs, propagated,
                   session_vars, tool_vars>>

\* lines 55-57, 73-76: receive() raises
receive_raises(kind) ==
    /\ rpc = "receiving"
    /\ Raise(kind, "receive")
    /\ UNCHANGED pair_vars
    /\ UNCHANGED <<closed, received, frame, pushed, session_vars, tool_vars>>

\* lines 66-67: await self.push_audio_frame(frame); continue
push_audio_frame ==
    /\ rpc = "push"
    /\ pushed' = pushed \o frame
    /\ frame' = <<>>
    /\ rpc' = "loop"
    /\ UNCHANGED pair_vars
    /\ UNCHANGED <<closed, received, raised, error_logs, propagated,
                   session_vars, tool_vars>>

\* lines 66, 73-76: push_audio_frame raises, the frame is not pushed
push_raises(kind) ==
    /\ rpc = "push"
    /\ Raise(kind, "push")
    /\ UNCHANGED pair_vars
    /\ UNCHANGED <<closed, received, frame, pushed, session_vars, tool_vars>>

-----------------------------------------------------------------------------
(* websocket_endpoint: the pipeline run and its end (lines 236-241).       *)

\* await PipelineRunner(handle_sigint=False).run(task) returns: the pipeline
\* has ended and its transport is closed.
run_returns ==
    /\ phase = "running"
    /\ phase' = "finally"
    /\ closed' = TRUE
    /\ UNCHANGED pair_vars
    /\ UNCHANGED <<api_key, ws_log, escaped, rpc, received, frame, pushed, raised,
                   error_logs, propagated, tool_vars>>

\* The run raises: WebSocketDisconnect or ConnectionClosedError is passed over
\* (lines 238-239), anything else leaves websocket_endpoint after the finally.
run_raises(kind) ==
    /\ phase = "running"
    /\ phase' = "finally"
    /\ escaped' = IF kind = "disconnect" THEN "none" ELSE "error"
    /\ closed' = TRUE
    /\ UNCHANGED pair_vars
    /\ UNCHANGED <<api_key, ws_log, rpc, received, frame, pushed, raised,
                   error_logs, propagated, tool_vars>>

\* finally: await ws.close()
finally_close ==
    /\ phase = "finally"
    /\ phase' = "returned"
    /\ ws_log' = Append(ws_log, [op |-> "close", code |-> 1000])
    /\ UNCHANGED pair_vars
    /\ UNCHANGED <<api_key, escaped, recv_vars, tool_vars>>

\* The session with its receive loop, from accept to the end of
\* websocket_endpoint.
SessionNext ==
    \/ accept
    \/ missing_key_send
    \/ missing_key_close
    \/ setup
    \/ setup_raises
    \/ loop_test
    \/ \E msg \in Messages : receive_message(msg)
    \/ \E kind \in ReceiveRaises : receive_raises(kind)
    \/ push_audio_frame
    \/ \E kind \in PushRaises : push_raises(kind)
    \/ run_returns
    \/ \E kind \in {"disconnect", "error"} : run_raises(kind)
    \/ finally_close

\* The event loop runs every coroutine that is ready: the steps the code takes
\* by itself are taken. What the client sends, what an await raises and when
\* the pipeline run ends are not the code's to decide: no fairness on them.
SessionFairness ==
    /\ WF_vars(accept)
    /\ WF_vars(missing_key_send)
    /\ WF_vars(missing_key_close)
    /\ WF_vars(setup \/ setup_raises)
    /\ WF_vars(loop_test)
    /\ WF_vars(push_audio_frame \/ \E kind \in PushRaises : push_raises(kind))
    /\ WF_vars(finally_close)

SessionSpec == Init /\ [][SessionNext]_vars /\ SessionFairness

-----------------------------------------------------------------------------
(* Two sessions at once: FastAPI runs websocket_endpoint once per          *)
(* connection, the calls interleaving at their awaits on one event loop.   *)

\* form_state = FormState() (line 139) is a local of websocket_endpoint, which
\* open_form, fill_form_field and submit_form close over: the object a
\* session's tools work on is the one its own call has constructed.
form_state_of_shared(s) == "a"
form_state_of(s) == s

\* The tool calls the two sessions receive.
SessionRequests ==
    {r \in Requests : r.tool = "fill_form_field" =>
                          r.value \in {U_my_name_is_John, U_John_at_the_rate}}

\* A tool handler up to its first await, lines 143-146, 151-175, 180-183: the
\* form state it leaves and the response it gives to result_callback.
ToolOutcome(req, fs) ==
    CASE req.tool = "open_form" ->
            [form_state |-> FormState_open(fs),
             resp |-> [status |-> "opened", form_type |-> "registration"]]
      [] req.tool = "fill_form_field" -> FillOutcome(fs, req.value)
      [] req.tool = "submit_form" ->
            [form_state |-> fs,
             resp |-> [status |-> "submitted", data |-> FormState_dump(fs)]]

\* websocket_endpoint of connection s up to the pipeline's run: the session
\* has its FormState and its tools.
connect(s) ==
    /\ s \notin active
    /\ active' = active \cup {s}
    /\ form_states' = [form_states EXCEPT ![form_state_of(s)] = FormState]
    /\ UNCHANGED <<session_calls, session_busy, session_results, session_events>>
    /\ UNCHANGED <<session_vars, recv_vars, tool_vars>>

\* The LLM service of session s runs a tool handler up to the return of
\* await params.result_callback(resp); it runs one handler at a time.
session_tool(s, req) ==
    /\ s \in active
    /\ ~session_busy[s]
    /\ Len(session_calls[s]) < MaxSessionCalls
    /\ LET o == ToolOutcome(req, form_states[form_state_of(s)])
       IN  /\ form_states' = [form_states EXCEPT ![form_state_of(s)] = o.form_state]
           /\ session_results' =
                  [session_results EXCEPT ![s] = Append(@, o.resp)]
    /\ session_calls' = [session_calls EXCEPT ![s] = Append(@, req)]
    /\ session_busy' = [session_busy EXCEPT ![s] = TRUE]
    /\ UNCHANGED <<active, session_events>>
    /\ UNCHANGED <<session_vars, recv_vars, tool_vars>>

\* The handler of session s goes on: await ws.send_json(resp) on its own
\* connection, then (submit_form) form_state.open(), and it returns.
session_send(s) ==
    /\ session_busy[s]
    /\ LET req == session_calls[s][Len(session_calls[s])]
           resp == session_results[s][Len(session_results[s])]
       IN  /\ session_events' = [session_events EXCEPT ![s] = Append(@, resp)]
           /\ form_states' =
                  [form_states EXCEPT ![form_state_of(s)] = AfterSend(req.tool, @)]
    /\ session_busy' = [session_busy EXCEPT ![s] = FALSE]
    /\ UNCHANGED <<active, session_calls, session_results>>
    /\ UNCHANGED <<session_vars, recv_vars, tool_vars>>

TwoSessionInit == Init /\ api_key = "set"

TwoSessionNext ==
    \/ \E s \in Sessions : connect(s)
    \/ \E s \in Sessions : \E req \in SessionRequests : session_tool(s, req)
    \/ \E s \in Sessions : session_send(s)

TwoSessionSpec == TwoSessionInit /\ [][TwoSessionNext]_vars

-----------------------------------------------------------------------------
(* What the claims are stated with.                                        *)

\* The results and the events a call has produced (positions in the channels).
ResultsOf(i) == {k \in 1..Len(results) : results[k].call = i}
EventsOf(i) == {k \in 1..Len(events) : events[k].call = i}

Started(i) == i \in 1..Len(calls) /\ calls[i].pc # "queued"
Done(i) == i \in 1..Len(calls) /\ calls[i].pc = "done"

\* The form state a started call has left: the one it ended in, or the current
\* one while it is running.
StateAfter(i) == IF calls[i].pc = "done" THEN calls[i].post ELSE form_state

IsOpen(fs) == fs.form_type = "registration"
IsEmpty(fs) == DOMAIN fs.fields = {}

HasStatus(p, st) == "status" \in DOMAIN p /\ p.status = st
IsError(p) == "error" \in DOMAIN p /\ p.error = "no_field_detected"

\* data is {form_type, ...fields} of the form state fs.
DataOf(data, fs) ==
    /\ DOMAIN data = {"form_type"} \cup DOMAIN fs.fields
    /\ data["form_type"] = fs.form_type
    /\ \A k \in DOMAIN fs.fields : data[k] = fs.fields[k]

(* C1: open_form always succeeds. Whatever the form state it is invoked in  *)
(* (no form open, open and empty, open with name and/or email), the state   *)
(* right after it, while the handler runs and when it has completed, has    *)
(* form_type = "registration" and no fields, and its result is "opened".    *)
C1_OpenFormResets ==
    \A i \in 1..Len(calls) :
        (calls[i].tool = "open_form" /\ Started(i)) =>
            /\ IsOpen(StateAfter(i))
            /\ IsEmpty(StateAfter(i))
            /\ HasStatus(calls[i].resp, "opened")

\* open_form has completed on a form that held a name and an email.
C1_Witness ==
    \E i \in 1..Len(calls) :
        /\ calls[i].tool = "open_form"
        /\ Done(i)
        /\ DOMAIN calls[i].pre.fields = {"name", "email"}

(* C2: a fill_form_field whose normalized candidate is empty mutates        *)
(* nothing, in any form state including the one with no form opened yet:    *)
(* form_type and fields are the same after the call as before it, and the   *)
(* outcome is the no_field_detected error.                                  *)
C2_EmptyFillMutatesNothing ==
    \A i \in 1..Len(calls) :
        (/\ calls[i].tool = "fill_form_field"
         /\ Started(i)
         /\ Normalize(calls[i].value) = <<>>) =>
            /\ IsError(calls[i].resp)
            /\ StateAfter(i).form_type = calls[i].pre.form_type
            /\ StateAfter(i).fields = calls[i].pre.fields

(* C3: a fill_form_field with a non-empty candidate records exactly one     *)
(* entry fields[field] = candidate, field being "email" if and only if the  *)
(* candidate contains "@" and "name" otherwise; the result and the event    *)
(* carry the field and the value that were stored; the form is open         *)
(* afterwards, also when none was open before.                              *)
C3_FillRecordsField ==
    \A i \in 1..Len(calls) :
        (/\ calls[i].tool = "fill_form_field"
         /\ Started(i)
         /\ Normalize(calls[i].value) # <<>>) =>
            LET st == StateAfter(i)
                pre == calls[i].pre
                Carries(p) ==
                    /\ HasStatus(p, "filled")
                    /\ p.value # <<>>
                    /\ p.field \in {"name", "email"}
                    /\ (p.field = "email") <=> Contains(p.value, "@")
                    /\ p.field \in DOMAIN st.fields
                    /\ st.fields[p.field] = p.value
                    /\ DOMAIN st.fields = DOMAIN pre.fields \cup {p.field}
                    /\ \A k \in DOMAIN pre.fields \ {p.field} :
                            st.fields[k] = pre.fields[k]
            IN  /\ IsOpen(st)
                /\ ResultsOf(i) # {}
                /\ \A k \in ResultsOf(i) : Carries(results[k].payload)
                /\ Done(i) => EventsOf(i) # {}
                /\ \A k \in EventsOf(i) : Carries(events[k].payload)

\* An email has been filled, with no form open before, and its event sent.
C3_Witness ==
    \E i \in 1..Len(calls) :
        /\ calls[i].tool = "fill_form_field"
        /\ Done(i)
        /\ calls[i].pre.form_type = None
        /\ HasStatus(calls[i].resp, "filled")
        /\ calls[i].resp.field = "email"
        /\ \E j \in 1..Len(calls) :
              /\ Done(j)
              /\ HasStatus(calls[j].resp, "filled")
              /\ calls[j].resp.field = "name"

(* C4: the data of submit_form's result and event is {form_type, ...fields} *)
(* of the form state at the moment submit_form was invoked; once it has     *)
(* completed the form is open with no fields, and the next tool call starts *)
(* from that state.                                                         *)
C4_SubmitSnapshotThenReopen ==
    \A i \in 1..Len(calls) :
        (calls[i].tool = "submit_form" /\ Started(i)) =>
            LET Snapshot(p) == HasStatus(p, "submitted") /\ DataOf(p.data, calls[i].pre)
            IN  /\ ResultsOf(i) # {}
                /\ \A k \in ResultsOf(i) : Snapshot(results[k].payload)
                /\ \A k \in EventsOf(i) : Snapshot(events[k].payload)
                /\ Done(i) =>
                    /\ EventsOf(i) # {}
                    /\ IsOpen(calls[i].post)
                    /\ IsEmpty(calls[i].post)
                    /\ Started(i + 1) =>
                        /\ IsOpen(calls[i + 1].pre)
                        /\ IsEmpty(calls[i + 1].pre)

\* A form with a field has been submitted and the next tool call has started.
C4_Witness ==
    \E i \in 1..Len(calls) :
        /\ calls[i].tool = "submit_form"
        /\ Done(i)
        /\ DOMAIN calls[i].pre.fields # {}
        /\ Started(i + 1)

C6_HandlersSequential ==
    /\ Cardinality({i \in 1..Len(calls) : Running(calls[i])}) <= 1
    /\ \A i \in 1..Len(calls) :
          (calls[i].tool = "submit_form" /\ Running(calls[i])) =>
              /\ HasStatus(calls[i].resp, "submitted")
              /\ DataOf(calls[i].resp.data, form_state)

\* submit_form is in the middle of its send while a fill_form_field waits.
C6_Witness ==
    \E i, j \in 1..Len(calls) :
        /\ calls[i].tool = "submit_form"
        /\ calls[i].pc = "sending"
        /\ calls[j].tool = "fill_form_field"
        /\ calls[j].pc = "queued"

(* C7: writes to the connection are mutually exclusive: the audio-output    *)
(* stage and a tool handler's ws.send_json are never both in the middle of  *)
(* a write.                                                                 *)
C7_ExclusiveWrites ==
    ~(audio_writing /\ \E i \in 1..Len(calls) : calls[i].pc = "sending")


\* The audio of the frames pushed, in the order pushed.
PushedAudio == [i \in 1..Len(pushed) |-> pushed[i].audio]

HasBytes(msg) == "bytes" \in DOMAIN msg
HasAudio(msg) == "bytes" \in DOMAIN msg /\ msg.bytes # <<>>

\* The binary payloads among msgs, and the non-empty ones, in order.
BinaryPayloads(msgs) ==
    LET sel == SelectSeq(msgs, HasBytes) IN [i \in 1..Len(sel) |-> sel[i].bytes]
AudioPayloads(msgs) ==
    LET sel == SelectSeq(msgs, HasAudio) IN [i \in 1..Len(sel) |-> sel[i].bytes]

\* ws.close has been called on the connection.
HandleClosed == \E k \in 1..Len(ws_log) : ws_log[k].op = "close"

(* C8: the receive loop never propagates a fault: whatever receive() or     *)
(* push_audio_frame raises, _receive_messages leaves its loop and returns   *)
(* normally; a recognized disconnect is not logged, any other error is      *)
(* logged (once) before the return.                                         *)
C8_LoopNeverPropagates ==
    /\ ~propagated
    /\ rpc # "raised"
    /\ raised.kind # "none" => rpc = "returned"
    /\ raised.kind \in {"none", "disconnect"} => error_logs = 0
    /\ raised.kind = "error" => error_logs = 1

\* push_audio_frame raised an unexpected error: logged, and the loop returned.
C8_Witness ==
    /\ rpc = "returned"
    /\ raised = [kind |-> "error", at |-> "push"]
    /\ error_logs = 1

(* C9: once the receive loop has exited (disconnect or unexpected error),   *)
(* the session is eventually torn down: the pipeline run ends and the       *)
(* connection handle is closed.                                             *)
C9_LoopExitLeadsToTeardown ==
    (rpc = "returned") ~> (phase = "returned" /\ HandleClosed)

(* C10, as claimed: whenever the loop is about to read the next message,    *)
(* the frames pushed are exactly the received binary payloads, in arrival   *)
(* order, one 16,000 Hz mono frame per payload.                             *)
C10_OneFramePerBinaryPayload ==
    /\ \A i \in 1..Len(pushed) :
          pushed[i].sample_rate = 16000 /\ pushed[i].num_channels = 1
    /\ rpc \in {"loop", "receiving"} => PushedAudio = BinaryPayloads(received)

(* C10, amended: the frames pushed are exactly the received non-empty       *)
(* binary payloads, in arrival order, one 16,000 Hz mono frame per payload, *)
(* none reordered or duplicated: all of them whenever the loop is about to  *)
(* read the next message, all but the one in hand while it is being pushed  *)
(* or after its push raised. A text ping, an empty binary payload and a     *)
(* message with neither produce no frame and do not end the loop.           *)
C10_OneFramePerAudioPayload ==
    LET expected == AudioPayloads(received)
        in_hand == [i \in 1..Len(frame) |-> frame[i].audio]
    IN  /\ \A i \in 1..Len(pushed) :
              pushed[i].sample_rate = 16000 /\ pushed[i].num_channels = 1
        /\ PushedAudio \o in_hand = expected
        /\ rpc \in {"loop", "receiving"} => in_hand = <<>>
        /\ (received # <<>> /\ ~HasAudio(received[Len(received)]) /\ raised.kind = "none")
                => rpc \in {"loop", "receiving"} \/ closed

\* Audio, a text ping, audio: both payloads were pushed, in order, and the
\* loop reads on.
C10_Witness ==
    /\ rpc = "receiving"
    /\ Len(received) = 3
    /\ HasAudio(received[1])
    /\ "text" \in DOMAIN received[2]
    /\ HasAudio(received[3])
    /\ received[1].bytes # received[3].bytes
    /\ Len(pushed) = 2


\* What websocket_endpoint does to the connection when the credential is
\* missing (lines 118, 123, 124).
MissingKeyTrace ==
    <<[op |-> "accept"],
      [op |-> "send_json", error |-> "GEMINI_API_KEY not set"],
      [op |-> "close", code |-> 4401]>>

(* C11: with the API credential missing the session accepts, sends          *)
(* {"error": "GEMINI_API_KEY not set"}, closes with code 4401 and ends, in  *)
(* that order and nothing else: the pipeline never runs (no transport and   *)
(* no receive loop, the form untouched), no tool is called and nothing is   *)
(* written for a tool.                                                      *)
C11_MissingKeyRejected ==
    api_key = "missing" =>
        /\ phase \in {"start", "accepted", "rejecting", "returned"}
        /\ Len(ws_log) <= Len(MissingKeyTrace)
        /\ \A k \in 1..Len(ws_log) : ws_log[k] = MissingKeyTrace[k]
        /\ Len(ws_log) = (CASE phase = "start" -> 0 [] phase = "accepted" -> 1
                            [] phase = "rejecting" -> 2 [] OTHER -> 3)
        /\ escaped = "none"
        /\ rpc = "idle"
        /\ received = <<>> /\ pushed = <<>>
        /\ form_state = FormState
        /\ calls = <<>> /\ results = <<>> /\ events = <<>>
        /\ ~audio_writing

\* The session without a credential has ended.
C11_Witness ==
    /\ api_key = "missing"
    /\ phase = "returned"
    /\ ws_log = MissingKeyTrace


\* The close operations websocket_endpoint has performed on its handle.
Closes == SelectSeq(ws_log, LAMBDA e : e.op = "close")

(* C12: on every exit path of the handler after the accept (missing         *)
(* credential, normal end of the run, a disconnect out of the run, any      *)
(* other exception during setup or during the run) the connection handle    *)
(* has been closed exactly once when the handler has ended.                 *)
C12_ClosedExactlyOnce ==
    phase = "returned" => Len(Closes) = 1


\* The started calls of fill_form_field that recorded a field.
Filled(i) ==
    /\ Started(i)
    /\ calls[i].tool = "fill_form_field"
    /\ HasStatus(calls[i].resp, "filled")

(* C15: the data of every submitted result and event has a form_type that   *)
(* is a string, never None, whatever calls the session has received, with   *)
(* submit_form as its first call included.                                  *)
C15_SubmittedFormTypeIsString ==
    LET Typed(p) == HasStatus(p, "submitted") => p.data["form_type"] # None
    IN  /\ \A k \in 1..Len(results) : Typed(results[k].payload)
        /\ \A k \in 1..Len(events) : Typed(events[k].payload)

V_john == <<"j","o","h","n">>
V_john_at_example_com ==
    <<"j","o","h","n","@","e","x","a","m","p","l","e",".","c","o","m">>

\* The positions of character c in s.
Occurrences(s, c) == {k \in 1..Len(s) : s[k] = c}

(* C16: fill_form_field("email is john at the rate example.com") records    *)
(* field email with a value that has exactly one "@" and is the address     *)
(* "john@example.com".                                                      *)
C16_EmailUtteranceGivesAddress ==
    \A i \in 1..Len(calls) :
        (calls[i].tool = "fill_form_field" /\ calls[i].value = U_email_is_john
         /\ Started(i)) =>
            /\ Filled(i)
            /\ calls[i].resp.field = "email"
            /\ Cardinality(Occurrences(calls[i].resp.value, "@")) = 1
            /\ calls[i].resp.value = V_john_at_example_com
            /\ StateAfter(i).fields["email"] = V_john_at_example_com

\* The text with a self-introduction phrase removed where it leads the text,
\* and only there.
StripLeadingIntro(text) ==
    LET e == MatchIntro(text, 1)
    IN  IF e > 0 THEN SubSeq(text, e, Len(text)) ELSE text

(* C17: fill_form_field records the utterance lowercased, trimmed, with "at *)
(* the rate" collapsed and a leading self-introduction phrase stripped: "my *)
(* name is John" gives field name with value "john", and a phrase that does *)
(* not lead the utterance stays in the recorded value.                      *)
C17_OnlyLeadingIntroStripped ==
    \A i \in 1..Len(calls) :
        Filled(i) =>
            /\ calls[i].resp.value =
                   strip(StripLeadingIntro(
                       SubAtTheRate(strip(lower(calls[i].value)), 1)))
            /\ calls[i].value = U_my_name_is_John =>
                   /\ calls[i].resp.field = "name"
                   /\ calls[i].resp.value = V_john

\* Calls i and i + 1 are fills that recorded the same field.
SameFieldTwice(i) ==
    /\ Filled(i)
    /\ Filled(i + 1)
    /\ calls[i].resp.field = calls[i + 1].resp.field

\* What two fills of the same field, calls i and i + 1, do to the fields: the
\* field holds the later value, every other entry is as it was before call i.
OverwritesOnly(i) ==
    LET before == calls[i].pre.fields
        after == StateAfter(i + 1).fields
        f == calls[i].resp.field
    IN  /\ DOMAIN after = DOMAIN before \cup {f}
        /\ after[f] = calls[i + 1].resp.value
        /\ \A g \in DOMAIN before \ {f} : after[g] = before[g]

(* C18 as stated: two successful fills of the same field overwrite, and     *)
(* the other field's entry and form_type are unchanged by both calls.       *)
C18_OverwriteKeepsFormType ==
    \A i \in 1..Len(calls) :
        SameFieldTwice(i) =>
            /\ OverwritesOnly(i)
            /\ StateAfter(i + 1).form_type = calls[i].pre.form_type

(* C18: two successful fills of the same field overwrite: afterwards the    *)
(* field holds the later value and the other field's entry is unchanged;    *)
(* form_type is unchanged when a form was open before the first of them,    *)
(* and is "registration" afterwards in any case (the first fill opens the   *)
(* form when none is open).                                                 *)
C18_OverwriteKeepsOtherField ==
    \A i \in 1..Len(calls) :
        SameFieldTwice(i) =>
            /\ OverwritesOnly(i)
            /\ IsOpen(StateAfter(i + 1))
            /\ IsOpen(calls[i].pre) =>
                   StateAfter(i + 1).form_type = calls[i].pre.form_type

\* The name has been filled twice with different values while the email was
\* on the form.
C18_Witness ==
    \E i \in 1..Len(calls) :
        /\ SameFieldTwice(i)
        /\ Done(i + 1)
        /\ calls[i].resp.field = "name"
        /\ calls[i].resp.value # calls[i + 1].resp.value
        /\ "email" \in DOMAIN calls[i].pre.fields

(* C19: once a tool call has completed (open_form, fill_form_field even    *)
(* when it fails, submit_form) a form is open in every later state: in the  *)
(* current state, in the state every call ends in and in the state every    *)
(* later call starts from. form_type is None only until the first tool call *)
(* of the session has done its work: no call has completed then, and none   *)
(* but the first has started.                                               *)
C19_NeverBackToIdle ==
    /\ (\E i \in 1..Len(calls) : Done(i)) => IsOpen(form_state)
    /\ ~IsOpen(form_state) =>
        /\ form_state = FormState
        /\ \A i \in 1..Len(calls) : Started(i) => i = 1
    /\ \A i \in 1..Len(calls) :
        /\ Done(i) => IsOpen(calls[i].post)
        /\ (Started(i) /\ i > 1) => IsOpen(calls[i].pre)

\* submit_form was the first call, it has completed, and a failing fill has
\* completed after it.
C19_Witness ==
    /\ Len(calls) >= 2
    /\ calls[1].tool = "submit_form" /\ Done(1)
    /\ calls[1].pre.form_type = None
    /\ calls[2].tool = "fill_form_field" /\ Done(2)
    /\ IsError(calls[2].resp)

\* A form state whose fields are well formed.
WellFormed(fs) ==
    /\ DOMAIN fs.fields \subseteq {"name", "email"}
    /\ "form_type" \notin DOMAIN fs.fields
    /\ \A f \in DOMAIN fs.fields : fs.fields[f] # <<>>
    /\ "email" \in DOMAIN fs.fields => Contains(fs.fields["email"], "@")
    /\ "name" \in DOMAIN fs.fields => ~Contains(fs.fields["name"], "@")

(* C20: in every form state the session reaches (the current one, and the   *)
(* one every call starts from and ends in) the keys of the fields are among *)
(* "name" and "email", every value is non-empty, the email has an "@" and   *)
(* the name has none; no key is "form_type", so dump() overwrites nothing.  *)
C20_FieldsWellFormed ==
    /\ WellFormed(form_state)
    /\ \A i \in 1..Len(calls) :
        /\ Started(i) => WellFormed(calls[i].pre)
        /\ Done(i) => WellFormed(calls[i].post)
    /\ \A k \in 1..Len(results) :
        HasStatus(results[k].payload, "submitted") =>
            DOMAIN results[k].payload.data \subseteq {"form_type", "name", "email"}

\* Both fields are on the form, after a blank utterance was refused.
C20_Witness ==
    /\ DOMAIN form_state.fields = {"name", "email"}
    /\ \E i \in 1..Len(calls) : Done(i) /\ IsError(calls[i].resp)


\* A session that receives the calls h and no other session exists: the form
\* state it is in when they have completed, and what they have produced.
RECURSIVE Alone(_)
Alone(h) ==
    IF h = <<>> THEN [form_state |-> FormState, out |-> <<>>]
    ELSE LET req == h[Len(h)]
             before == Alone(SubSeq(h, 1, Len(h) - 1))
             o == ToolOutcome(req, before.form_state)
         IN  [form_state |-> AfterSend(req.tool, o.form_state),
              out |-> Append(before.out, o.resp)]

\* Session s is where it would be had it received its calls alone.
AsAlone(s) ==
    LET h == session_calls[s]
        fs == form_states[form_state_of(s)]
    IN  IF session_busy[s]
        THEN LET before == Alone(SubSeq(h, 1, Len(h) - 1))
                 o == ToolOutcome(h[Len(h)], before.form_state)
             IN  /\ fs = o.form_state
                 /\ session_results[s] = Append(before.out, o.resp)
                 /\ session_events[s] = before.out
        ELSE /\ fs = Alone(h).form_state
             /\ session_results[s] = Alone(h).out
             /\ session_events[s] = Alone(h).out

(* C14: two sessions never observe or mutate each other's FormState: in     *)
(* every interleaving of the tool calls of two sessions, the form state of  *)
(* each session and the results and events it has produced are those it     *)
(* would have with the same calls and no other session.                     *)
C14_SessionsIsolated ==
    \A s \in active : AsAlone(s)

\* Both sessions are in the middle of their second tool call, with different
\* forms: one has filled a field, the other has not.
C14_Witness ==
    /\ active = Sessions
    /\ \A s \in Sessions : session_busy[s] /\ Len(session_calls[s]) = 2
    /\ \E s, t \in Sessions :
        /\ DOMAIN form_states[form_state_of(s)].fields # {}
        /\ DOMAIN form_states[form_state_of(t)].fields = {}

====
